---- MODULE Spec2Model ----
(***************************************************************************)
(* Model of the networthlab projection engine:                              *)
(*   services/calculations.py : calculate_fire, calculate_loan_payoff       *)
(*   services/lunch_money.py  : LunchMoneyService.build_snapshot            *)
(*                                                                          *)
(* The functions are pure and the program is single threaded, so a         *)
(* behaviour is one call: Init draws the arguments (args), and the actions  *)
(* execute the function on them.  The state is the position of the thread   *)
(* (pc: "call" before the function is entered, a loop head while it runs,   *)
(* "done" after it returned or raised), the local variables of the function *)
(* being executed (frame), the value returned or the exception raised       *)
(* (result), the number of loop iterations executed (iters) and the system  *)
(* date (today).  When the caller repeats a call with the same arguments on *)
(* the same or a later date (state/app_state.py, recalculate), earlier      *)
(* keeps the outcome and the date of the first call.                        *)
(*                                                                          *)
(* Numbers.  A Decimal is modelled by its exact value, a rational <<n, d>>  *)
(* in lowest terms with d > 0, and Decimal arithmetic is exact (the inputs  *)
(* stay far below the 28 digits of the Decimal context).  A float is a      *)
(* binary floating point number: a rational m * 2^e whose mantissa m has    *)
(* MantissaBits bits (53 in Python; the exponent range is not modelled).    *)
(* A float operation and float(x) of a Decimal x round to the nearest such  *)
(* number, ties to even; Decimal(x) of a float x is exact.  A Decimal       *)
(* division by zero raises, which the actions model as a raised exception.  *)
(***************************************************************************)
EXTENDS Integers, Sequences, FiniteSets, TLC

VARIABLES pc, args, frame, result, iters, today, earlier

vars == <<pc, args, frame, result, iters, today, earlier>>

----------------------------------------------------------------------------
(* Exact arithmetic (decimal.Decimal and float values)                      *)

Abs(n) == IF n < 0 THEN -n ELSE n

RECURSIVE GCD(_, _)
GCD(a, b) == IF b = 0 THEN a ELSE GCD(b, a % b)

LCM(a, b) == (a \div GCD(a, b)) * b

\* n/d in lowest terms, d > 0
Norm(n, d) == LET g == GCD(Abs(n), d) IN <<n \div g, d \div g>>

\* Decimal(n) of an integer n
Dec(n) == <<n, 1>>

\* the rational n/d, d # 0
Frac(n, d) == IF d > 0 THEN Norm(n, d) ELSE Norm(-n, -d)

DAdd(a, b) ==
    LET l == LCM(a[2], b[2])
    IN  Norm(a[1] * (l \div a[2]) + b[1] * (l \div b[2]), l)

DNeg(a) == <<-a[1], a[2]>>

DSub(a, b) == DAdd(a, DNeg(b))

DMul(a, b) ==
    LET g1 == GCD(Abs(a[1]), b[2])
        g2 == GCD(Abs(b[1]), a[2])
    IN  Norm((a[1] \div g1) * (b[1] \div g2), (a[2] \div g2) * (b[2] \div g1))

\* a / b for b # 0 (Python raises when b = 0: the callers guard it)
DDiv(a, b) == DMul(a, Frac(b[2], b[1]))

\* a ** k for an integer k >= 0, by repeated squaring
RECURSIVE DPow(_, _)
DPow(a, k) ==
    IF k = 0 THEN Dec(1)
    ELSE IF k % 2 = 0 THEN LET h == DPow(a, k \div 2) IN DMul(h, h)
    ELSE DMul(a, DPow(a, k - 1))

DLe(a, b) ==
    LET l == LCM(a[2], b[2])
    IN  a[1] * (l \div a[2]) <= b[1] * (l \div b[2])

DLt(a, b) == ~DLe(b, a)
DGe(a, b) == DLe(b, a)
DGt(a, b) == ~DLe(a, b)

DMax(a, b) == IF DGe(a, b) THEN a ELSE b
DMin(a, b) == IF DLe(a, b) THEN a ELSE b
DAbs(a) == <<Abs(a[1]), a[2]>>

Zero == Dec(0)
One == Dec(1)

\* bits of the mantissa of a float
MantissaBits == 8

\* 2 ** MantissaBits: the mantissa of a float lies below it
MantissaLimit == DPow(Dec(2), MantissaBits)[1]

\* the largest power of two of the model's integers
LargestPowerOfTwo == DPow(Dec(2), 30)[1]

\* the integer nearest to a >= 0, ties to the even one
RoundHalfEven(a) ==
    LET f == a[1] \div a[2]
        r == 2 * (a[1] - f * a[2])
    IN  IF r < a[2] THEN f
        ELSE IF r > a[2] THEN f + 1
        ELSE IF f % 2 = 0 THEN f ELSE f + 1

\* a > 0 rounded to a multiple of a power of two, unit, chosen so that the
\* multiple has MantissaBits bits
RECURSIVE RoundToUnit(_, _)
RoundToUnit(a, unit) ==
    LET steps == DDiv(a, unit)
    IN  IF DGe(steps, Dec(MantissaLimit)) THEN RoundToUnit(a, DMul(unit, Dec(2)))
        ELSE IF DLt(steps, Dec(MantissaLimit \div 2))
        THEN RoundToUnit(a, DDiv(unit, Dec(2)))
        ELSE DMul(Dec(RoundHalfEven(steps)), unit)

\* a is a float: its denominator is a power of two and its numerator has
\* at most MantissaBits bits
IsFloat(a) ==
    /\ Abs(a[1]) < MantissaLimit
    /\ GCD(LargestPowerOfTwo, a[2]) = a[2]

\* the float nearest to the number a: float(a) of a Decimal, a float
\* literal, the result of a float operation
Float(a) ==
    IF IsFloat(a) THEN a
    ELSE IF a[1] > 0 THEN RoundToUnit(a, One)
    ELSE DNeg(RoundToUnit(DNeg(a), One))

----------------------------------------------------------------------------
(* Bounds of the model and constants of the program                         *)

\* longest search horizon explored with non-zero growth or inflation
MaxYears == 3

\* default of the max_years parameter of calculate_fire
DefaultMaxYears == 50

\* variant: 0.05 as the substitute rate
DefaultWithdrawalRateFivePercent == Float(Frac(5, 100))

\* line 26: the float 0.04, substituted for a withdrawal rate <= 0
DefaultWithdrawalRate == Float(Frac(4, 100))

NoFrame == [fn |-> "none"]
NoResult == [kind |-> "none"]
NoEarlier == [kind |-> "none"]

\* the system date: calendar year and day of the year
Dates ==
    {[year |-> 2026, day |-> 309], [year |-> 2026, day |-> 324],
     [year |-> 2027, day |-> 4]}

----------------------------------------------------------------------------
(* calculate_fire                                                           *)

InvestmentValues == {Dec(-40), Zero, Dec(512), Dec(1023), Dec(1024)}
SavingsValues == {Dec(-100), Zero, Dec(300)}

\* the expenses whose FIRE number at the float 0.04 is 500000
LargeExpenses == DMul(Dec(500000), Float(Frac(4, 100)))

ExpenseValues == {Zero, Dec(41), Dec(82), LargeExpenses}

\* the float arguments: the floats 0.0, 0.5, 0.25 and those written -0.04,
\* 0.04 and 0.1
ReturnValues == {Zero, Float(Frac(1, 2))}
WithdrawalValues ==
    {Float(Frac(-4, 100)), Zero, Float(Frac(4, 100)), Float(Frac(1, 10))}
InflationValues == {Zero, Float(Frac(1, 4))}
HorizonValues == (0..MaxYears) \cup {DefaultMaxYears}

\* The calls of calculate_fire explored.  The long default horizon and the
\* large expense figure are only combined with zero return and inflation, so
\* that the exact values stay small.
FireArgs ==
    { a \in [fn : {"calculate_fire"},
             current_investments : InvestmentValues,
             annual_savings : SavingsValues,
             annual_expenses : ExpenseValues,
             expected_return : ReturnValues,
             withdrawal_rate : WithdrawalValues,
             inflation_rate : InflationValues,
             max_years : HorizonValues] :
        (a.max_years > MaxYears \/ a.annual_expenses = LargeExpenses)
            => (a.expected_return = Zero /\ a.inflation_rate = Zero) }
    \cup
    \* one year of 100000 at the float 0.07 with savings of 24000
    {[fn |-> "calculate_fire",
      current_investments |-> Dec(100000),
      annual_savings |-> Dec(24000),
      annual_expenses |-> LargeExpenses,
      expected_return |-> Float(Frac(7, 100)),
      withdrawal_rate |-> Float(Frac(4, 100)),
      inflation_rate |-> Zero,
      max_years |-> 1]}

\* lines 25-26: the rate the FIRE number is computed with
EffectiveWithdrawalRate(withdrawal_rate) ==
    IF DLe(withdrawal_rate, Zero) THEN DefaultWithdrawalRate ELSE withdrawal_rate

\* line 28
FireNumber(annual_expenses, withdrawal_rate) ==
    DDiv(annual_expenses, EffectiveWithdrawalRate(withdrawal_rate))

\* variant: the savings are added before the year's growth is applied
GrowSavingsFirst(investments, expected_return, annual_savings) ==
    DMul(DAdd(investments, annual_savings), Float(DAdd(One, expected_return)))

\* line 44: investments * Decimal(1 + expected_return) + annual_savings, the
\* sum 1 + expected_return being a float
Grow(investments, expected_return, annual_savings) ==
    DAdd(DMul(investments, Float(DAdd(One, expected_return))), annual_savings)

\* line 47
AdjustedFire(fire_number, inflation_rate, year) ==
    DMul(fire_number, DPow(Float(DAdd(One, inflation_rate)), year))

\* variant: a strict comparison in the already-FIRE check
AlreadyFireStrict(investments, fire_number) == DGt(investments, fire_number)

\* line 32: the already-FIRE check
AlreadyFire(investments, fire_number) == DGe(investments, fire_number)

\* line 49: the target is reached in the simulated year
TargetReached(investments, adjusted_fire) == DGe(investments, adjusted_fire)

\* line 56: min(1.0, float(current_investments / fire_number)), fire_number # 0
AchievedProgress(current_investments, fire_number) ==
    DMin(One, Float(DDiv(current_investments, fire_number)))

\* variant: the progress reported as a percentage
NotAchievableProgressPercent(current_investments, fire_number) ==
    IF DGt(fire_number, Zero)
    THEN Float(DMul(Dec(100), DDiv(current_investments, fire_number)))
    ELSE Zero

\* variant: the sign test of the FIRE number reversed
NotAchievableProgressWrongSign(current_investments, fire_number) ==
    IF DLt(fire_number, Zero) THEN Float(DDiv(current_investments, fire_number))
    ELSE Zero

\* line 66: float(current_investments / fire_number) if fire_number > 0
NotAchievableProgress(current_investments, fire_number) ==
    IF DGt(fire_number, Zero) THEN Float(DDiv(current_investments, fire_number))
    ELSE Zero

\* line 56: what the Decimal division raises when fire_number = 0
ZeroDivisionError(numerator) ==
    IF numerator = Zero THEN "InvalidOperation" ELSE "DivisionByZero"

FIREResult(fire_number, a, years_to_fire, fire_year, fire_progress) ==
    [fire_number |-> fire_number,
     current_investments |-> a.current_investments,
     annual_expenses |-> a.annual_expenses,
     years_to_fire |-> years_to_fire,
     fire_year |-> fire_year,
     fire_progress |-> fire_progress]

\* variant: the progress of the already-FIRE result computed as on line 66
AlreadyFireResultComputedProgress(fire_number, a) ==
    FIREResult(fire_number, a, 0, today.year,
               NotAchievableProgress(a.current_investments, fire_number))

\* lines 33-40: the result when FIRE is already achieved
AlreadyFireResult(fire_number, a) == FIREResult(fire_number, a, 0, today.year, One)

Return(fn, value) == [kind |-> "return", fn |-> fn, value |-> value]
Raise(fn, exc) == [kind |-> "raise", fn |-> fn, exc |-> exc]

\* lines 25-40: entry of calculate_fire up to the already-FIRE check
CallCalculateFire ==
    /\ pc = "call"
    /\ args.fn = "calculate_fire"
    /\ LET a == args
           fire_number == FireNumber(a.annual_expenses, a.withdrawal_rate)
           investments == a.current_investments
       IN  IF AlreadyFire(investments, fire_number)
           THEN /\ result' = Return("calculate_fire",
                                    AlreadyFireResult(fire_number, a))
                /\ pc' = "done"
                /\ frame' = NoFrame
           ELSE /\ result' = NoResult
                /\ pc' = "fire_loop"
                /\ frame' = [fn |-> "calculate_fire",
                             fire_number |-> fire_number,
                             investments |-> investments,
                             year |-> 0]
    /\ UNCHANGED <<args, iters, today, earlier>>

\* lines 42-57: one iteration of the search loop
FireLoopStep ==
    /\ pc = "fire_loop"
    /\ frame.year < args.max_years
    /\ iters' = iters + 1
    /\ LET year == frame.year + 1
           investments == Grow(frame.investments, args.expected_return,
                               args.annual_savings)
           adjusted_fire == AdjustedFire(frame.fire_number, args.inflation_rate, year)
       IN  IF TargetReached(investments, adjusted_fire)
           THEN /\ pc' = "done"
                /\ frame' = NoFrame
                /\ result' =
                     IF frame.fire_number = Zero
                     THEN Raise("calculate_fire",
                                ZeroDivisionError(args.current_investments))
                     ELSE Return("calculate_fire",
                            FIREResult(frame.fire_number, args, year,
                                       today.year + year,
                                       AchievedProgress(args.current_investments,
                                                        frame.fire_number)))
           ELSE /\ pc' = "fire_loop"
                /\ frame' = [frame EXCEPT !.investments = investments,
                                          !.year = year]
                /\ UNCHANGED result
    /\ UNCHANGED <<args, today, earlier>>

\* lines 59-67: the loop is exhausted, FIRE is not achievable within max_years
FireLoopExit ==
    /\ pc = "fire_loop"
    /\ frame.year >= args.max_years
    /\ pc' = "done"
    /\ frame' = NoFrame
    /\ result' = Return("calculate_fire",
                    FIREResult(frame.fire_number, args, -1, -1,
                               NotAchievableProgress(args.current_investments,
                                                     frame.fire_number)))
    /\ UNCHANGED <<args, iters, today, earlier>>

NextFire ==
    \/ CallCalculateFire
    \/ FireLoopStep
    \/ FireLoopExit

----------------------------------------------------------------------------
(* calculate_loan_payoff                                                    *)

\* line 101: the 30 year cap of the amortization loop, in months
MonthCap == 360

BalanceValues == {-5, 0, 16, 400}
RateValues == {Dec(-12), Zero, Frac(3, 4), Dec(6)}
PaymentValues == {-5, 0, 1, 8, 12}
ExtraValues == {0, 4}

LoanArgs ==
    [fn : {"calculate_loan_payoff"},
     account_id : {1},
     account_name : {"Mortgage"},
     balance : {Dec(v) : v \in BalanceValues},
     annual_rate : RateValues,
     monthly_payment : {Dec(v) : v \in PaymentValues},
     extra_payment : {Dec(v) : v \in ExtraValues}]

\* variant: the annual rate applied every month
MonthlyRateUndivided(annual_rate) == annual_rate

\* line 95: Decimal(annual_rate / 12), the quotient being a float
MonthlyRate(annual_rate) == Float(DDiv(annual_rate, Dec(12)))

\* variant: the extra payment taken off the monthly payment
TotalPaymentLessExtra(monthly_payment, extra_payment) == DSub(monthly_payment, extra_payment)

\* line 99
TotalPayment(monthly_payment, extra_payment) == DAdd(monthly_payment, extra_payment)

\* line 102
Interest(remaining, monthly_rate) == DMul(remaining, monthly_rate)

\* variant: the interest added to the payment
PrincipalPlusInterest(total_payment, interest) == DAdd(total_payment, interest)

\* line 104
Principal(total_payment, interest) == DSub(total_payment, interest)

\* line 119
Remaining(remaining, principal) == DMax(Zero, DSub(remaining, principal))

\* variant: the days are counted from the start of the year
PlusDaysFromNewYear(date, days) == [date EXCEPT !.day = days]

\* date + timedelta(days)
PlusDays(date, days) == [date EXCEPT !.day = @ + days]

LoanPayoffResult(a, months_to_payoff, payoff_date, total_interest) ==
    [account_id |-> a.account_id,
     account_name |-> a.account_name,
     current_balance |-> a.balance,
     interest_rate |-> a.annual_rate,
     monthly_payment |-> a.monthly_payment,
     months_to_payoff |-> months_to_payoff,
     payoff_date |-> payoff_date,
     total_interest |-> total_interest]

\* variant: the sentinel result returned for a balance <= 0
ImmediatePayoffAsSentinel(a) == LoanPayoffResult(a, -1, today, Dec(-1))

\* lines 84-93: the result for a balance <= 0
ImmediatePayoff(a) == LoanPayoffResult(a, 0, today, Zero)

\* lines 108-117: the result when the payment does not cover the interest
NeverPaidOff(a) == LoanPayoffResult(a, -1, today, Dec(-1))

\* variant: a payment equal to the interest is let through
InsufficientPaymentStrict(principal) == DLt(principal, Zero)

\* line 106
InsufficientPayment(principal) == DLe(principal, Zero)

\* lines 83-99: entry of calculate_loan_payoff
CallCalculateLoanPayoff ==
    /\ pc = "call"
    /\ args.fn = "calculate_loan_payoff"
    /\ IF DLe(args.balance, Zero)
       THEN /\ result' = Return("calculate_loan_payoff", ImmediatePayoff(args))
            /\ pc' = "done"
            /\ frame' = NoFrame
       ELSE /\ result' = NoResult
            /\ pc' = "loan_loop"
            /\ frame' = [fn |-> "calculate_loan_payoff",
                         monthly_rate |-> MonthlyRate(args.annual_rate),
                         remaining |-> args.balance,
                         months |-> 0,
                         total_interest |-> Zero,
                         total_payment |-> TotalPayment(args.monthly_payment,
                                                        args.extra_payment)]
    /\ UNCHANGED <<args, iters, today, earlier>>

\* variant: the loop condition without the cap
LoanLoopGuardNoCap == DGt(frame.remaining, Zero)

\* line 101: the loop condition
LoanLoopGuard == DGt(frame.remaining, Zero) /\ frame.months < MonthCap

\* lines 101-120: one simulated month
LoanLoopStep ==
    /\ pc = "loan_loop"
    /\ LoanLoopGuard
    /\ iters' = iters + 1
    /\ LET interest == Interest(frame.remaining, frame.monthly_rate)
           total_interest == DAdd(frame.total_interest, interest)
           principal == Principal(frame.total_payment, interest)
       IN  IF InsufficientPayment(principal)
           THEN /\ pc' = "done"
                /\ frame' = NoFrame
                /\ result' = Return("calculate_loan_payoff", NeverPaidOff(args))
           ELSE /\ pc' = "loan_loop"
                /\ frame' = [frame EXCEPT
                               !.total_interest = total_interest,
                               !.remaining = Remaining(frame.remaining, principal),
                               !.months = frame.months + 1]
                /\ UNCHANGED result
    /\ UNCHANGED <<args, today, earlier>>

\* lines 122-133: the loop has ended, by payoff or by the cap
LoanLoopExit ==
    /\ pc = "loan_loop"
    /\ ~LoanLoopGuard
    /\ pc' = "done"
    /\ frame' = NoFrame
    /\ result' = Return("calculate_loan_payoff",
                        LoanPayoffResult(args, frame.months,
                                         PlusDays(today, frame.months * 30),
                                         frame.total_interest))
    /\ UNCHANGED <<args, iters, today, earlier>>

NextLoan ==
    \/ CallCalculateLoanPayoff
    \/ LoanLoopStep
    \/ LoanLoopExit

----------------------------------------------------------------------------
(* LunchMoneyService.build_snapshot                                         *)

\* longest list of accounts the data source returns
MaxAccounts == 2

\* longest list of transactions the data source returns
MaxTxns == 2

\* models/accounts.py: AccountType
AccountType ==
    {"cash", "investment", "loan", "real_estate", "crypto", "credit",
     "vehicle", "other_asset", "other_liability"}

AccountBalances == {0, 3}

\* models/accounts.py: Account (the fields build_snapshot reads)
Account == [type : AccountType, balance : {Dec(v) : v \in AccountBalances}]

\* Account.is_asset, Account.is_liability
\* variant: a vehicle is not counted as an asset
IsAssetExceptVehicle(a) == a.type \notin {"loan", "credit", "other_liability", "vehicle"}

IsAsset(a) == a.type \notin {"loan", "credit", "other_liability"}
IsLiability(a) == ~IsAsset(a)

TxnDates == {[year |-> 2026, day |-> 294], [year |-> 2026, day |-> 324]}
TxnAmounts == {-30, 60}

\* models/accounts.py: Transaction (the fields build_snapshot reads)
Transaction ==
    [date : TxnDates, amount : {Dec(v) : v \in TxnAmounts}, is_income : BOOLEAN]

\* Transaction.is_expense
IsExpense(t) == ~t.is_income

ListsOf(S, n) == UNION {[1..k -> S] : k \in 0..n}

\* what get_accounts() and get_transactions() can return
AccountLists == ListsOf(Account, MaxAccounts)
TransactionLists == ListsOf(Transaction, MaxTxns)

\* sum(a.balance for a in accounts if a.type in types)
RECURSIVE SumBalances(_, _)
SumBalances(accounts, types) ==
    IF accounts = <<>> THEN Zero
    ELSE DAdd(IF Head(accounts).type \in types THEN Head(accounts).balance ELSE Zero,
              SumBalances(Tail(accounts), types))

\* sum(t.amount for t in transactions if t.is_income = flag)
RECURSIVE SumAmounts(_, _)
SumAmounts(transactions, flag) ==
    IF transactions = <<>> THEN Zero
    ELSE DAdd(IF Head(transactions).is_income = flag
              THEN Head(transactions).amount ELSE Zero,
              SumAmounts(Tail(transactions), flag))

\* (a - b).days, for dates of 2026 and 2027
Days(a, b) == (a.year - b.year) * 365 + (a.day - b.day)

DateLe(a, b) == Days(a, b) <= 0

\* min(t.date for t in transactions), transactions not empty
EarliestDate(transactions) ==
    LET dates == {transactions[i].date : i \in 1..Len(transactions)}
    IN  CHOOSE d \in dates : \A e \in dates : DateLe(d, e)

\* variant: the floor of 1 applied to the days, not to the months
ElapsedMonthsFloorOnDays(transactions, date) ==
    LET days == Days(date, EarliestDate(transactions))
    IN  Float(Frac(IF days > 1 THEN days ELSE 1, 30))

\* line 177: max(1, (date.today() - min(t.date ...)).days / 30)
ElapsedMonths(transactions, date) ==
    DMax(One, Float(Frac(Days(date, EarliestDate(transactions)), 30)))

\* line 178: abs(sum(t.amount for t in income_txns)) / Decimal(months)
MonthlyIncome(transactions, date) ==
    DDiv(DAbs(SumAmounts(transactions, TRUE)), ElapsedMonths(transactions, date))

\* line 179
MonthlyExpenses(transactions, date) ==
    DDiv(DAbs(SumAmounts(transactions, FALSE)), ElapsedMonths(transactions, date))

SnapshotArgs == {[fn |-> "build_snapshot"]}

\* line 148: accounts = self.get_accounts()
GetAccounts ==
    /\ pc = "call"
    /\ args.fn = "build_snapshot"
    /\ \E accounts \in AccountLists :
         frame' = [fn |-> "build_snapshot", accounts |-> accounts]
    /\ pc' = "snapshot_totals"
    /\ UNCHANGED <<args, result, iters, today, earlier>>

\* variant: the crypto subtotal left out of the assets
TotalAssetsWithoutCrypto(investments, cash, real_estate, crypto, other_assets) ==
    DAdd(DAdd(DAdd(investments, cash), real_estate), other_assets)

\* lines 167-169
TotalAssets(investments, cash, real_estate, crypto, other_assets) ==
    DAdd(DAdd(DAdd(DAdd(investments, cash), real_estate), crypto), other_assets)

TotalLiabilities(loans, credit, other_liabilities) ==
    DAdd(DAdd(loans, credit), other_liabilities)

NetWorth(total_assets, total_liabilities) == DSub(total_assets, total_liabilities)

\* lines 150-169: the subtotals by category and the totals.  The list of
\* accounts is not read after line 165 and is dropped from the frame.
SnapshotTotals ==
    /\ pc = "snapshot_totals"
    /\ LET accounts == frame.accounts
           investments == SumBalances(accounts, {"investment"})
           cash == SumBalances(accounts, {"cash"})
           real_estate == SumBalances(accounts, {"real_estate"})
           crypto == SumBalances(accounts, {"crypto"})
           other_assets == SumBalances(accounts, {"vehicle", "other_asset"})
           loans == SumBalances(accounts, {"loan"})
           credit == SumBalances(accounts, {"credit"})
           other_liabilities == SumBalances(accounts, {"other_liability"})
           total_assets == TotalAssets(investments, cash, real_estate, crypto,
                                       other_assets)
           total_liabilities == TotalLiabilities(loans, credit, other_liabilities)
       IN  frame' = [fn |-> "build_snapshot",
                     investments |-> investments,
                     cash |-> cash,
                     real_estate |-> real_estate,
                     crypto |-> crypto,
                     other_assets |-> other_assets,
                     loans |-> loans,
                     credit |-> credit,
                     other_liabilities |-> other_liabilities,
                     total_assets |-> total_assets,
                     total_liabilities |-> total_liabilities,
                     net_worth |-> NetWorth(total_assets, total_liabilities)]
    /\ pc' = "snapshot_transactions"
    /\ UNCHANGED <<args, result, iters, today, earlier>>

\* line 172: transactions = self.get_transactions()
GetTransactions ==
    /\ pc = "snapshot_transactions"
    /\ \E transactions \in TransactionLists :
         frame' = [x \in DOMAIN frame \cup {"transactions"} |->
                       IF x = "transactions" THEN transactions ELSE frame[x]]
    /\ pc' = "snapshot_cashflow"
    /\ UNCHANGED <<args, result, iters, today, earlier>>

\* lines 173-202: the monthly cash flow, and the snapshot returned
SnapshotCashFlow ==
    /\ pc = "snapshot_cashflow"
    /\ LET transactions == frame.transactions
       IN
         LET monthly_income ==
                 IF transactions # <<>> THEN MonthlyIncome(transactions, today)
                 ELSE Zero
             monthly_expenses ==
                 IF transactions # <<>> THEN MonthlyExpenses(transactions, today)
                 ELSE Zero
             monthly_savings == DSub(monthly_income, monthly_expenses)
         IN  result' = Return("build_snapshot",
                 [snapshot_date |-> today,
                  net_worth |-> frame.net_worth,
                  total_assets |-> frame.total_assets,
                  total_liabilities |-> frame.total_liabilities,
                  investments |-> frame.investments,
                  cash |-> frame.cash,
                  real_estate |-> frame.real_estate,
                  crypto |-> frame.crypto,
                  other_assets |-> frame.other_assets,
                  loans |-> frame.loans,
                  credit |-> frame.credit,
                  other_liabilities |-> frame.other_liabilities,
                  monthly_income |-> monthly_income,
                  monthly_expenses |-> monthly_expenses,
                  monthly_savings |-> monthly_savings])
    /\ pc' = "done"
    /\ frame' = NoFrame
    /\ UNCHANGED <<args, iters, today, earlier>>

NextSnapshot ==
    \/ GetAccounts
    \/ SnapshotTotals
    \/ GetTransactions
    \/ SnapshotCashFlow

----------------------------------------------------------------------------
(* project_net_worth                                                        *)

\* models/settings.py: the least projection_years UserSettings accepts
MinProjectionYears == 5

\* the optional years argument: None, or the set holding the integer given
None == {}
Some(n) == {n}

\* models/projections.py: FinancialSnapshot, built from the subtotals s with
\* its totals derived from them as build_snapshot derives them
FinancialSnapshot(date, s, monthly_income, monthly_expenses) ==
    [snapshot_date |-> date,
     net_worth |-> NetWorth(TotalAssets(s.investments, s.cash, s.real_estate,
                                        s.crypto, s.other_assets),
                            TotalLiabilities(s.loans, s.credit, s.other_liabilities)),
     total_assets |-> TotalAssets(s.investments, s.cash, s.real_estate, s.crypto,
                                  s.other_assets),
     total_liabilities |-> TotalLiabilities(s.loans, s.credit, s.other_liabilities),
     investments |-> s.investments,
     cash |-> s.cash,
     real_estate |-> s.real_estate,
     crypto |-> s.crypto,
     other_assets |-> s.other_assets,
     loans |-> s.loans,
     credit |-> s.credit,
     other_liabilities |-> s.other_liabilities,
     monthly_income |-> monthly_income,
     monthly_expenses |-> monthly_expenses,
     monthly_savings |-> DSub(monthly_income, monthly_expenses)]

SnapshotInvestments == {0, 100}
SnapshotLoans == {-10, 0, 40}
SnapshotIncomes == {0, 3}
SnapshotExpenses == {0, 1}

\* the snapshots project_net_worth is called with
Snapshots ==
    { FinancialSnapshot([year |-> 2026, day |-> 309],
                        [investments |-> Dec(i), cash |-> Dec(5),
                         real_estate |-> Dec(0), crypto |-> Dec(7),
                         other_assets |-> Dec(1), loans |-> Dec(l),
                         credit |-> Dec(3), other_liabilities |-> Dec(2)],
                        Dec(inc), Dec(e)) :
        i \in SnapshotInvestments, l \in SnapshotLoans,
        inc \in SnapshotIncomes, e \in SnapshotExpenses }

\* models/settings.py: UserSettings (the fields project_net_worth reads)
Settings ==
    [expected_return : ReturnValues,
     safe_withdrawal_rate : WithdrawalValues,
     projection_years : {MinProjectionYears}]

\* The calls of project_net_worth explored, among them one year of 100000
\* at the float 0.07 with savings of 2000 a month.
ProjectArgs ==
    [fn : {"project_net_worth"},
     snapshot : Snapshots,
     settings : Settings,
     years : {Some(n) : n \in 0..MaxYears} \cup {None}]
    \cup
    {[fn |-> "project_net_worth",
      snapshot |-> FinancialSnapshot([year |-> 2026, day |-> 309],
                       [investments |-> Dec(100000), cash |-> Dec(5),
                        real_estate |-> Dec(0), crypto |-> Dec(7),
                        other_assets |-> Dec(1), loans |-> Dec(0),
                        credit |-> Dec(3), other_liabilities |-> Dec(2)],
                       Dec(2000), Dec(0)),
      settings |-> [expected_return |-> Float(Frac(7, 100)),
                    safe_withdrawal_rate |-> Float(Frac(4, 100)),
                    projection_years |-> MinProjectionYears],
      years |-> Some(1)]}

\* variant: the explicit years argument is ignored
HorizonIgnoringArgument(years, settings) == settings.projection_years

\* lines 149-150
Horizon(years, settings) ==
    IF years = None THEN settings.projection_years ELSE CHOOSE n \in years : TRUE

\* variant: 0.04 substituted for a rate <= 0, as calculate_fire does
ProjectionFireNumberWithDefault(annual_expenses, safe_withdrawal_rate) ==
    DDiv(annual_expenses, EffectiveWithdrawalRate(safe_withdrawal_rate))

\* lines 158-161: the FIRE number the progress is tracked against
ProjectionFireNumber(annual_expenses, safe_withdrawal_rate) ==
    IF DGt(safe_withdrawal_rate, Zero)
    THEN DDiv(annual_expenses, safe_withdrawal_rate)
    ELSE Zero

\* variant: 5% of the balance paid per year, as the comment of line 163 says
LoanBalanceFivePercent(current_loans, year) ==
    DMax(Zero, DSub(current_loans, DMul(DMul(current_loans, Frac(1, 20)), Dec(year))))

\* line 171
LoanBalance(current_loans, year) ==
    DMax(Zero, DSub(current_loans, DMul(DMul(current_loans, Frac(1, 10)), Dec(year))))

\* lines 174-183
ProjectedNetWorth(investments, snapshot, loan_balance) ==
    DSub(DSub(DSub(DAdd(DAdd(DAdd(DAdd(investments, snapshot.cash),
                                  snapshot.real_estate),
                             snapshot.crypto),
                        snapshot.other_assets),
                   loan_balance),
              snapshot.credit),
         snapshot.other_liabilities)

\* line 186
ProjectionProgress(investments, fire_number) ==
    IF DGt(fire_number, Zero) THEN DMin(One, Float(DDiv(investments, fire_number)))
    ELSE Zero

\* lines 149-164: entry of project_net_worth
CallProjectNetWorth ==
    /\ pc = "call"
    /\ args.fn = "project_net_worth"
    /\ frame' = [fn |-> "project_net_worth",
                 years |-> Horizon(args.years, args.settings),
                 projections |-> <<>>,
                 investments |-> args.snapshot.investments,
                 annual_savings |-> DMul(args.snapshot.monthly_savings, Dec(12)),
                 fire_number |->
                     ProjectionFireNumber(DMul(args.snapshot.monthly_expenses, Dec(12)),
                                          args.settings.safe_withdrawal_rate),
                 current_loans |-> args.snapshot.loans,
                 year |-> 0]
    /\ pc' = "project_loop"
    /\ UNCHANGED <<args, result, iters, today, earlier>>

\* lines 166-196: one projected year
ProjectLoopStep ==
    /\ pc = "project_loop"
    /\ frame.year < frame.years
    /\ iters' = iters + 1
    /\ LET year == frame.year + 1
           investments == Grow(frame.investments, args.settings.expected_return,
                               frame.annual_savings)
           loan_balance == LoanBalance(frame.current_loans, year)
           net_worth == ProjectedNetWorth(investments, args.snapshot, loan_balance)
           fire_progress == ProjectionProgress(investments, frame.fire_number)
       IN  frame' = [frame EXCEPT
                       !.year = year,
                       !.investments = investments,
                       !.projections =
                           Append(@, [year |-> today.year + year,
                                      net_worth |-> net_worth,
                                      investments |-> investments,
                                      loan_balance |-> loan_balance,
                                      fire_progress |-> fire_progress])]
    /\ UNCHANGED <<pc, args, result, today, earlier>>

\* line 198
ProjectLoopExit ==
    /\ pc = "project_loop"
    /\ frame.year >= frame.years
    /\ pc' = "done"
    /\ result' = Return("project_net_worth", frame.projections)
    /\ frame' = NoFrame
    /\ UNCHANGED <<args, iters, today, earlier>>

NextProject ==
    \/ CallProjectNetWorth
    \/ ProjectLoopStep
    \/ ProjectLoopExit

----------------------------------------------------------------------------

InitWith(calls) ==
    /\ pc = "call"
    /\ args \in calls
    /\ frame = NoFrame
    /\ result = NoResult
    /\ iters = 0
    /\ today \in Dates
    /\ earlier = NoEarlier

InitFire == InitWith(FireArgs)

SpecFire == InitFire /\ [][NextFire]_vars

InitLoan == InitWith(LoanArgs)

SpecLoan == InitLoan /\ [][NextLoan]_vars

InitSnapshot == InitWith(SnapshotArgs)

SpecSnapshot == InitSnapshot /\ [][NextSnapshot]_vars

InitProject == InitWith(ProjectArgs)

SpecProject == InitProject /\ [][NextProject]_vars

Init == InitWith(FireArgs \cup LoanArgs \cup SnapshotArgs \cup ProjectArgs)

Next == NextFire \/ NextLoan \/ NextSnapshot \/ NextProject

Spec == Init /\ [][Next]_vars

\* state/app_state.py, recalculate: the call is made once more with the same
\* arguments, on the same date or on a later one
Recalculate ==
    /\ pc = "done"
    /\ earlier = NoEarlier
    /\ earlier' = [kind |-> "call", date |-> today, result |-> result]
    /\ today' \in {d \in Dates : DateLe(today, d)}
    /\ pc' = "call"
    /\ result' = NoResult
    /\ iters' = 0
    /\ UNCHANGED <<args, frame>>

\* calculate_loan_payoff is called once more for the same loan, with an
\* extra_payment (line 76) that is not smaller
CallWithLargerExtra ==
    /\ pc = "done"
    /\ earlier = NoEarlier
    /\ args.fn = "calculate_loan_payoff"
    /\ \E e \in ExtraValues :
         /\ DGe(Dec(e), args.extra_payment)
         /\ args' = [args EXCEPT !.extra_payment = Dec(e)]
    /\ earlier' = [kind |-> "call", date |-> today, result |-> result, args |-> args]
    /\ pc' = "call"
    /\ result' = NoResult
    /\ iters' = 0
    /\ UNCHANGED <<frame, today>>

NextExtra == NextLoan \/ CallWithLargerExtra

SpecExtra == InitLoan /\ [][NextExtra]_vars

InitRepeat == InitWith(FireArgs \cup LoanArgs \cup ProjectArgs)

NextRepeat == NextFire \/ NextLoan \/ NextProject \/ Recalculate

SpecRepeat == InitRepeat /\ [][NextRepeat]_vars

----------------------------------------------------------------------------
(* Properties                                                               *)

Returned(fn) == pc = "done" /\ args.fn = fn /\ result.kind = "return"

\* the value of a Decimal that is a whole number
IsWhole(a) == a[2] = 1

\* C1: the snapshot returned by build_snapshot has total_assets =
\* investments + cash + real_estate + crypto + other_assets, total_liabilities
\* = loans + credit + other_liabilities and net_worth = total_assets -
\* total_liabilities, exactly, for every list of accounts (all balances of
\* the model are non-negative whole amounts, so the sums are integer sums).
C1_SnapshotTotalsExact ==
    Returned("build_snapshot") =>
        LET s == result.value
        IN  /\ \A f \in {"investments", "cash", "real_estate", "crypto",
                         "other_assets", "loans", "credit", "other_liabilities",
                         "total_assets", "total_liabilities", "net_worth"} :
                  IsWhole(s[f])
            /\ s.total_assets[1] = s.investments[1] + s.cash[1] + s.real_estate[1]
                                     + s.crypto[1] + s.other_assets[1]
            /\ s.total_liabilities[1] = s.loans[1] + s.credit[1]
                                          + s.other_liabilities[1]
            /\ s.net_worth[1] = s.total_assets[1] - s.total_liabilities[1]

\* C1 witness: a snapshot of one crypto account and one loan of the same
\* amount.
C1_Witness ==
    /\ Returned("build_snapshot")
    /\ result.value.crypto = Dec(3)
    /\ result.value.loans = Dec(3)
    /\ result.value.total_assets = Dec(3)
    /\ result.value.total_liabilities = Dec(3)
    /\ result.value.net_worth = Zero

\* the FIRE number as the contract states it: annual_expenses divided by the
\* withdrawal rate, the float 0.04 standing in for a rate <= 0
ContractFireNumber(a) ==
    LET rate == IF a.withdrawal_rate[1] <= 0 THEN Float(Frac(4, 100))
                ELSE a.withdrawal_rate
    IN  Frac(a.annual_expenses[1] * rate[2], a.annual_expenses[2] * rate[1])

\* C2: a call of calculate_fire with current_investments >= fire_number
\* returns years_to_fire = 0, fire_year = the current year and fire_progress
\* = 1.0 whatever the other arguments are, and never enters the loop.
C2_AlreadyFire ==
    (args.fn = "calculate_fire" /\ pc # "call"
     /\ DGe(args.current_investments, ContractFireNumber(args)))
    => /\ Returned("calculate_fire")
       /\ iters = 0
       /\ result.value.years_to_fire = 0
       /\ result.value.fire_year = today.year
       /\ result.value.fire_progress = One

\* C2 witness: investments equal to the FIRE number, with negative savings.
C2_Witness ==
    /\ Returned("calculate_fire")
    /\ args.current_investments = Dec(1024)
    /\ result.value.fire_number = Dec(1024)
    /\ args.annual_savings = Dec(-100)
    /\ result.value.years_to_fire = 0

\* C3 as stated: with annual_expenses = 0 and current_investments >= 0 the
\* result has fire_number = 0 and fire_progress = 0.0, without a fault.
C3_ZeroExpensesProgressZero ==
    (pc = "done" /\ args.fn = "calculate_fire" /\ args.annual_expenses = Zero
     /\ DGe(args.current_investments, Zero))
    => /\ result.kind = "return"
       /\ result.value.fire_number = Zero
       /\ result.value.fire_progress = Zero

\* C3 amended: with annual_expenses = 0 and current_investments >= 0 the
\* call takes the already-FIRE path: it returns, without a fault and without
\* entering the loop, fire_number = 0, years_to_fire = 0 and fire_progress =
\* 1.0.
C3_ZeroExpensesAlreadyFire ==
    (args.fn = "calculate_fire" /\ pc # "call" /\ args.annual_expenses = Zero
     /\ DGe(args.current_investments, Zero))
    => /\ Returned("calculate_fire")
       /\ iters = 0
       /\ result.value.fire_number = Zero
       /\ result.value.years_to_fire = 0
       /\ result.value.fire_progress = One

\* C3 witness: zero expenses and zero investments.
C3_Witness ==
    /\ Returned("calculate_fire")
    /\ args.annual_expenses = Zero
    /\ args.current_investments = Zero
    /\ result.value.fire_number = Zero

\* x after k applications of x := x * (1 + rate) + savings, the sum 1 + rate
\* being the float sum of the float rate.  The k years are
\* split in halves, and the first half is evaluated (the test of its
\* denominator) before the second is begun, to keep the evaluation shallow.
RECURSIVE Compound(_, _, _, _)
Compound(x, rate, savings, k) ==
    IF k = 0 THEN x
    ELSE IF k = 1 THEN DAdd(DMul(x, Float(DAdd(Dec(1), rate))), savings)
    ELSE LET half == Compound(x, rate, savings, k \div 2)
         IN  IF half[2] > 0 THEN Compound(half, rate, savings, k - (k \div 2))
             ELSE half

\* the investments after k applications of
\* investments := investments * (1 + expected_return) + annual_savings
SimInvestments(a, k) ==
    Compound(a.current_investments, a.expected_return, a.annual_savings, k)

\* fire_number * (1 + inflation_rate)^k
InflatedTarget(a, k) == Compound(ContractFireNumber(a), a.inflation_rate, Zero, k)

\* the simulated investments reach the inflation-adjusted target in year k
ReachedIn(a, k) == DGe(SimInvestments(a, k), InflatedTarget(a, k))

\* C4: when calculate_fire returns years_to_fire = y > 0, y is the least
\* year of 1..max_years in which the simulated investments reach
\* fire_number * (1 + inflation_rate)^y, and fire_year = current year + y.
C4_FirstYearReached ==
    (Returned("calculate_fire") /\ result.value.years_to_fire > 0)
    => LET y == result.value.years_to_fire
       IN  /\ y \in 1..args.max_years
           /\ ReachedIn(args, y)
           /\ \A k \in 1..(y - 1) : ~ReachedIn(args, k)
           /\ result.value.fire_year = today.year + y

\* C4 witness: the target is first reached in the third year.
C4_Witness ==
    /\ Returned("calculate_fire")
    /\ result.value.years_to_fire = 3
    /\ args.expected_return # Zero
    /\ args.inflation_rate # Zero

\* C5: when current_investments < fire_number and no year of 1..max_years
\* reaches the target, calculate_fire returns, without raising, years_to_fire
\* = -1 and fire_year = -1 with fire_progress = current_investments /
\* fire_number (0 if fire_number <= 0); the call with investments 0, FIRE
\* number 500000, no return and no savings yields -1, -1 and 0.0.
C5_NotAchievable ==
    /\ (pc = "done" /\ args.fn = "calculate_fire"
        /\ DLt(args.current_investments, ContractFireNumber(args))
        /\ \A k \in 1..args.max_years : ~ReachedIn(args, k))
       => /\ result.kind = "return"
          /\ result.value.years_to_fire = -1
          /\ result.value.fire_year = -1
          /\ result.value.fire_progress =
               IF ContractFireNumber(args)[1] > 0
               THEN Float(Frac(args.current_investments[1]
                                 * ContractFireNumber(args)[2],
                               args.current_investments[2]
                                 * ContractFireNumber(args)[1]))
               ELSE Zero
    /\ (pc = "done" /\ args.fn = "calculate_fire"
        /\ args.current_investments = Zero /\ args.annual_expenses = LargeExpenses
        /\ args.withdrawal_rate = Float(Frac(4, 100)) /\ args.expected_return = Zero
        /\ args.annual_savings = Zero)
       => /\ result.kind = "return"
          /\ result.value.fire_number = Dec(500000)
          /\ result.value.years_to_fire = -1
          /\ result.value.fire_year = -1
          /\ result.value.fire_progress = Zero

\* C5 witness: a call that exhausts the default horizon of 50 years with a
\* positive progress.
C5_Witness ==
    /\ Returned("calculate_fire")
    /\ args.max_years = DefaultMaxYears
    /\ iters = DefaultMaxYears
    /\ result.value.years_to_fire = -1
    /\ result.value.fire_progress = Frac(1, 2)

\* C6: with withdrawal_rate <= 0 the FIRE number calculate_fire computes and
\* returns is annual_expenses / 0.04, and computing it does not fault.
C6_DefaultWithdrawalRate ==
    (args.fn = "calculate_fire" /\ pc # "call" /\ args.withdrawal_rate[1] <= 0)
    => /\ pc = "fire_loop" =>
              frame.fire_number = DDiv(args.annual_expenses, Float(Frac(4, 100)))
       /\ result.kind = "return" =>
              result.value.fire_number =
                  DDiv(args.annual_expenses, Float(Frac(4, 100)))
       /\ iters = 0 => result.kind # "raise"

\* C6 witness: a zero rate and a negative rate, both with positive expenses.
C6_Witness ==
    /\ Returned("calculate_fire")
    /\ args.withdrawal_rate = Zero
    /\ args.annual_expenses = Dec(41)
    /\ result.value.fire_number = Dec(1024)

\* the progress a projected year would show against annual_expenses / 0.04
ProgressAgainstDefaultRate(investments, monthly_expenses) ==
    IF monthly_expenses[1] > 0
    THEN DMin(Dec(1),
              Float(DDiv(investments,
                         DDiv(DMul(monthly_expenses, Dec(12)), Float(Frac(4, 100))))))
    ELSE Dec(0)

\* C7 as stated: with settings.safe_withdrawal_rate <= 0, every projected
\* year's fire_progress is the progress against annual_expenses / 0.04.
C7_ProjectionSubstitutesDefaultRate ==
    (Returned("project_net_worth") /\ args.settings.safe_withdrawal_rate[1] <= 0)
    => \A i \in 1..Len(result.value) :
          result.value[i].fire_progress =
              ProgressAgainstDefaultRate(result.value[i].investments,
                                         args.snapshot.monthly_expenses)

\* C7 amended: project_net_worth does not substitute 0.04: with
\* settings.safe_withdrawal_rate <= 0 it takes the FIRE number to be 0, and
\* every projected year's fire_progress is 0.0; no fault occurs.
C7_ProjectionProgressZero ==
    (args.fn = "project_net_worth" /\ args.settings.safe_withdrawal_rate[1] <= 0)
    => /\ pc = "project_loop" =>
              /\ frame.fire_number = Zero
              /\ \A i \in 1..Len(frame.projections) :
                     frame.projections[i].fire_progress = Zero
       /\ pc = "done" =>
              /\ result.kind = "return"
              /\ Len(result.value) = Horizon(args.years, args.settings)
              /\ \A i \in 1..Len(result.value) :
                     result.value[i].fire_progress = Zero

\* C7 witness: a zero rate, positive expenses and investments, three years.
C7_Witness ==
    /\ Returned("project_net_worth")
    /\ args.settings.safe_withdrawal_rate = Zero
    /\ args.snapshot.monthly_expenses = Dec(1)
    /\ args.snapshot.investments = Dec(100)
    /\ Len(result.value) = 3

\* the first month's interest as the contract states it: balance * rate / 12
FirstInterest(a) ==
    Frac(a.balance[1] * a.annual_rate[1], a.balance[2] * a.annual_rate[2] * 12)

PaymentWithinFirstInterest(a) ==
    DLe(DAdd(a.monthly_payment, a.extra_payment), FirstInterest(a))

\* C8: a call of calculate_loan_payoff with balance <= 0 returns
\* months_to_payoff = 0, total_interest = 0 and payoff_date = today for every
\* rate and payment, and simulates no month.
C8_ImmediatePayoff ==
    (args.fn = "calculate_loan_payoff" /\ pc # "call" /\ args.balance[1] <= 0)
    => /\ Returned("calculate_loan_payoff")
       /\ iters = 0
       /\ result.value.months_to_payoff = 0
       /\ result.value.total_interest = Zero
       /\ result.value.payoff_date = today

\* C8 witness: a zero balance with a positive rate and no payment at all.
C8_Witness ==
    /\ Returned("calculate_loan_payoff")
    /\ args.balance = Zero
    /\ args.annual_rate = Dec(6)
    /\ args.monthly_payment = Zero
    /\ args.extra_payment = Zero

\* the -1/-1 sentinel pair
IsSentinel(r) == r.months_to_payoff = -1 /\ r.total_interest = Dec(-1)

\* C9 as stated: every call with monthly_payment + extra_payment <= balance *
\* annual_rate / 12 returns the sentinel pair.
C9_SentinelWheneverPaymentWithinInterest ==
    (pc = "done" /\ args.fn = "calculate_loan_payoff"
     /\ PaymentWithinFirstInterest(args))
    => (result.kind = "return" /\ IsSentinel(result.value))

\* C9 amended: every call with balance > 0 and monthly_payment +
\* extra_payment <= balance * annual_rate / 12 returns the sentinel pair in
\* the first simulated month, with no balance reduction applied and no
\* exception raised.
C9_SentinelFirstMonth ==
    (args.fn = "calculate_loan_payoff" /\ pc # "call" /\ args.balance[1] > 0
     /\ PaymentWithinFirstInterest(args))
    => /\ pc = "loan_loop" =>
              (iters = 0 /\ frame.months = 0 /\ frame.remaining = args.balance)
       /\ pc = "done" =>
              (result.kind = "return" /\ IsSentinel(result.value) /\ iters = 1)

\* C9 witness: the payment equals the first month's interest.
C9_Witness ==
    /\ Returned("calculate_loan_payoff")
    /\ args.balance = Dec(16)
    /\ args.annual_rate = Dec(6)
    /\ DAdd(args.monthly_payment, args.extra_payment) = Dec(8)
    /\ IsSentinel(result.value)

\* C10: calculate_loan_payoff simulates at most 360 months and then returns:
\* months_to_payoff is -1 or lies in 0..360, and when the cap is reached with
\* a positive remaining balance the result is 360 months with the interest
\* accumulated so far, not the sentinel; the search of calculate_fire runs at
\* most max_years iterations; every step of either loop is one more
\* iteration or the return.
C10_LoanCapInvariant ==
    /\ args.fn = "calculate_loan_payoff" =>
         /\ iters <= MonthCap
         /\ pc = "loan_loop" => frame.months = iters
         /\ Returned("calculate_loan_payoff") =>
              \/ result.value.months_to_payoff = -1
              \/ result.value.months_to_payoff \in 0..MonthCap
    /\ args.fn = "calculate_fire" =>
         /\ iters <= args.max_years
         /\ pc = "fire_loop" => frame.year = iters

C10_CapReachedStep ==
    (pc = "loan_loop" /\ frame.months = MonthCap /\ DGt(frame.remaining, Zero))
    => /\ pc' = "done"
       /\ result'.kind = "return"
       /\ result'.value.months_to_payoff = MonthCap
       /\ result'.value.total_interest = frame.total_interest

\* a step taken at a loop head is one more iteration or the return
C10_LoopProgress ==
    pc \in {"loan_loop", "fire_loop"} =>
        \/ pc' = pc /\ iters' = iters + 1
        \/ pc' = "done" /\ result'.kind \in {"return", "raise"}

C10_BoundedLoops ==
    /\ []C10_LoanCapInvariant
    /\ [][C10_CapReachedStep /\ C10_LoopProgress]_vars

\* C10 witness: a loan that still has a balance after 360 months.
C10_Witness ==
    /\ Returned("calculate_loan_payoff")
    /\ iters = MonthCap
    /\ args.balance = Dec(400)
    /\ DAdd(args.monthly_payment, args.extra_payment) = Dec(1)
    /\ args.annual_rate = Zero
    /\ result.value.months_to_payoff = MonthCap

\* x and y differ by no more than the rounding of a float of size scale
Near(x, y, scale) ==
    DLe(DAbs(DSub(x, y)), DDiv(scale, Dec(MantissaLimit \div 2)))

\* the recurrence of the contract, one month: interest = remaining *
\* annual_rate / 12 (the quotient of the float annual_rate), remaining :=
\* max(0, remaining - (monthly_payment + extra_payment - interest)); covered
\* records that the payment has exceeded the interest of every month that
\* still had a balance, and the recurrence is not carried past a month it
\* does not cover
AmortizeMonth(s, a) ==
    LET interest == DMul(s.remaining,
                         Float(Frac(a.annual_rate[1], a.annual_rate[2] * 12)))
        payment == DAdd(a.monthly_payment, a.extra_payment)
    IN  IF ~s.covered THEN s
        ELSE IF s.remaining[1] > 0 /\ DLe(payment, interest)
        THEN [s EXCEPT !.covered = FALSE]
        ELSE [remaining |-> DMax(Zero, DSub(s.remaining, DSub(payment, interest))),
              total_interest |-> DAdd(s.total_interest, interest),
              covered |-> TRUE]

\* n applications of the recurrence
RECURSIVE Amortize(_, _, _)
Amortize(s, a, n) ==
    IF n = 0 THEN s
    ELSE IF n = 1 THEN AmortizeMonth(s, a)
    ELSE LET half == Amortize(s, a, n \div 2)
         IN  IF half.remaining[2] > 0 THEN Amortize(half, a, n - (n \div 2))
             ELSE half

AfterMonths(a, n) ==
    Amortize([remaining |-> a.balance, total_interest |-> Zero, covered |-> TRUE],
             a, n)

PaymentCoversEveryMonth(a) == AfterMonths(a, MonthCap).covered

RequestedYears(a) ==
    IF a.years = None THEN a.settings.projection_years
    ELSE CHOOSE n \in 0..MaxYears : a.years = Some(n)

C13_ProgressInUnitInterval ==
    Returned("project_net_worth") =>
        \A i \in 1..Len(result.value) :
            /\ DGe(result.value[i].fire_progress, Zero)
            /\ DLe(result.value[i].fire_progress, One)

\* C13, what line 186 does guarantee: fire_progress is at most 1 in every
\* entry, and it is negative exactly when the projected investments are
\* negative while the FIRE number is positive.
C13_ProgressCappedAbove ==
    Returned("project_net_worth") =>
        \A i \in 1..Len(result.value) :
            /\ DLe(result.value[i].fire_progress, One)
            /\ DLt(result.value[i].fire_progress, Zero)
                 <=> (/\ DLt(result.value[i].investments, Zero)
                      /\ args.snapshot.monthly_expenses[1] > 0
                      /\ args.settings.safe_withdrawal_rate[1] > 0)

\* C13 witness: no investments, expenses of 1 a month and no income: after
\* one year the investments are -12 against a FIRE number of 12 / 0.04.
C13_Witness ==
    /\ Returned("project_net_worth")
    /\ args.snapshot.investments = Zero
    /\ args.snapshot.monthly_savings = Dec(-1)
    /\ args.settings.safe_withdrawal_rate = Float(Frac(4, 100))
    /\ args.settings.expected_return = Zero
    /\ Len(result.value) >= 1
    /\ result.value[1].investments = Dec(-12)
    /\ result.value[1].fire_progress = Float(Frac(-4, 100))

\* the arguments of the calculate_fire simulation that starts from the
\* snapshot's investments with annual savings of 12 * monthly_savings
AsFireArgs(a) ==
    [current_investments |-> a.snapshot.investments,
     expected_return |-> a.settings.expected_return,
     annual_savings |-> DMul(a.snapshot.monthly_savings, Dec(12))]

\* C14, the equivalence: the simulation of calculate_fire holds, after its
\* k-th year, k applications of investments := investments * (1 +
\* expected_return) + annual_savings to current_investments, and the k-th
\* entry of project_net_worth has that same value for the snapshot's
\* investments, the settings' expected return and 12 * monthly_savings.
C14_SameCompounding ==
    /\ (args.fn = "calculate_fire" /\ pc = "fire_loop")
       => frame.investments = SimInvestments(args, frame.year)
    /\ (args.fn = "project_net_worth" /\ pc = "project_loop")
       => frame.investments = SimInvestments(AsFireArgs(args), frame.year)
    /\ Returned("project_net_worth")
       => \A k \in 1..Len(result.value) :
              result.value[k].investments = SimInvestments(AsFireArgs(args), k)

\* the call of the example: 100000 invested, 2000 a month saved, 0.07
ExampleProjection ==
    /\ args.fn = "project_net_worth"
    /\ args.snapshot.investments = Dec(100000)
    /\ args.snapshot.monthly_savings = Dec(2000)
    /\ args.settings.expected_return = Float(Frac(7, 100))
    /\ args.years = Some(1)

\* C14 as stated: the equivalence, and investments 100000, monthly savings
\* 2000, return 0.07 and horizon 1 give exactly 131000.
C14_CompoundsToExactExample ==
    /\ C14_SameCompounding
    /\ (Returned("project_net_worth") /\ ExampleProjection)
       => result.value[1].investments = Dec(131000)

\* C14 witness: the example is projected, and its first year's investments
\* are 100000 times the float 1 + 0.07, plus 24000: not 131000.
C14_Witness ==
    /\ Returned("project_net_worth")
    /\ ExampleProjection
    /\ Len(result.value) = 1
    /\ result.value[1].investments =
           DAdd(DMul(Dec(100000), Float(DAdd(One, Float(Frac(7, 100))))), Dec(24000))
    /\ result.value[1].investments # Dec(131000)
    /\ Near(result.value[1].investments, Dec(131000), Dec(107000))

\* the entry e, of year k, has the loan balance and the net worth the
\* contract derives from the snapshot s
EntryFollowsSnapshot(e, k, s) ==
    /\ e.loan_balance = DMax(Zero, DSub(s.loans, DMul(s.loans, Frac(k, 10))))
    /\ e.net_worth =
           DSub(DAdd(DAdd(e.investments, s.cash),
                     DAdd(s.real_estate, DAdd(s.crypto, s.other_assets))),
                DAdd(e.loan_balance, DAdd(s.credit, s.other_liabilities)))

C15_EntriesFollowSnapshot ==
    /\ (args.fn = "project_net_worth" /\ pc = "project_loop")
       => \A k \in 1..Len(frame.projections) :
              EntryFollowsSnapshot(frame.projections[k], k, args.snapshot)
    /\ Returned("project_net_worth")
       => \A k \in 1..Len(result.value) :
              EntryFollowsSnapshot(result.value[k], k, args.snapshot)

C15_ClampWitness ==
    /\ Returned("project_net_worth")
    /\ Len(result.value) = 3
    /\ args.snapshot.loans = Dec(-10)
    /\ result.value[3].loan_balance = Zero

----------------------------------------------------------------------------
(* Repeated calls                                                           *)

\* the outcome of a call, its calendar fields counted from the date of the call
Undated(r, date) ==
    IF r.kind # "return" THEN r
    ELSE IF r.fn = "calculate_fire"
    THEN [r EXCEPT !.value.fire_year = IF @ = -1 THEN -1 ELSE @ - date.year]
    ELSE IF r.fn = "calculate_loan_payoff"
    THEN [r EXCEPT !.value.payoff_date = [year |-> 0, day |-> Days(@, date)]]
    ELSE [r EXCEPT !.value = [i \in DOMAIN @ |-> [@[i] EXCEPT !.year = @ - date.year]]]

\* the second call has returned
Repeated == pc = "done" /\ earlier # NoEarlier

C16_EqualUpToTheDate ==
    Repeated =>
        /\ Undated(result, today) = Undated(earlier.result, earlier.date)
        /\ today = earlier.date => result = earlier.result

----------------------------------------------------------------------------
(* Cash-flow averaging                                                      *)

\* the averaging of lines 173-184 is about to run on the fetched transactions
Averaging == pc = "snapshot_cashflow"

\* C17: in build_snapshot the cash-flow averaging never divides by zero and
\* never raises: the elapsed-month divisor is at least 1, also when the
\* earliest transaction is dated today or later; an empty transaction list
\* gives monthly_income = monthly_expenses = monthly_savings = 0; and in every
\* case monthly_savings = monthly_income - monthly_expenses with
\* monthly_income >= 0 and monthly_expenses >= 0.
C17_AveragingNeverFails ==
    [][Averaging =>
        /\ result'.kind = "return"
        /\ frame.transactions # <<>> =>
              /\ DGe(ElapsedMonths(frame.transactions, today), One)
              /\ ElapsedMonths(frame.transactions, today) =
                     DMax(One, Float(Frac(Days(today, EarliestDate(frame.transactions)), 30)))
              /\ DateLe(today, EarliestDate(frame.transactions)) =>
                     ElapsedMonths(frame.transactions, today) = One
              /\ DMul(result'.value.monthly_income,
                      ElapsedMonths(frame.transactions, today)) =
                     DAbs(SumAmounts(frame.transactions, TRUE))
              /\ DMul(result'.value.monthly_expenses,
                      ElapsedMonths(frame.transactions, today)) =
                     DAbs(SumAmounts(frame.transactions, FALSE))
        /\ frame.transactions = <<>> =>
              /\ result'.value.monthly_income = Zero
              /\ result'.value.monthly_expenses = Zero
              /\ result'.value.monthly_savings = Zero
        /\ result'.value.monthly_savings =
               DSub(result'.value.monthly_income, result'.value.monthly_expenses)
        /\ DGe(result'.value.monthly_income, Zero)
        /\ DGe(result'.value.monthly_expenses, Zero)]_vars

\* a snapshot built on 2026-11-05 from an income of 60: the transactions are
\* dated 15 days before that date or 15 days after it, and the half month,
\* or the negative half month, is floored to one month
C17_Witness ==
    /\ pc = "done"
    /\ args.fn = "build_snapshot"
    /\ today = [year |-> 2026, day |-> 309]
    /\ result.kind = "return"
    /\ result.value.monthly_income = Dec(60)
    /\ result.value.monthly_expenses = Zero
    /\ result.value.monthly_savings = Dec(60)

----------------------------------------------------------------------------
(* Categories and subtotals                                                 *)

AssetSubtotals == {"investments", "cash", "real_estate", "crypto", "other_assets"}
LiabilitySubtotals == {"loans", "credit", "other_liabilities"}

\* the categories for which Account.is_asset holds, and the others
AssetTypes == {t \in AccountType : IsAsset([type |-> t, balance |-> Zero])}
LiabilityTypes == {t \in AccountType : IsLiability([type |-> t, balance |-> Zero])}

\* the sum of the subtotals named in a set, taken from a frame of totals
RECURSIVE SumSubtotals(_, _)
SumSubtotals(f, names) ==
    IF names = {} THEN Zero
    ELSE LET n == CHOOSE x \in names : TRUE
         IN  DAdd(f[n], SumSubtotals(f, names \ {n}))

\* C18: every account category contributes its balances to exactly one
\* snapshot subtotal, an asset subtotal exactly when Account.is_asset is true
\* for the category (vehicle and other_asset both go to other_assets; loan,
\* credit, other_liability go to the liability subtotals); total_assets is
\* the sum of the balances of all is_asset accounts and total_liabilities the
\* sum of the balances of all is_liability accounts, no account being dropped
\* or counted twice.
C18_EachCategoryInOneSubtotal ==
    [][pc = "snapshot_totals" =>
        /\ Len(frame.accounts) = 1 /\ frame.accounts[1].balance # Zero =>
              LET a == frame.accounts[1]
                  fed == {n \in AssetSubtotals \cup LiabilitySubtotals : frame'[n] # Zero}
              IN  /\ Cardinality(fed) = 1
                  /\ \A n \in fed : frame'[n] = a.balance
                  /\ fed \subseteq AssetSubtotals <=> IsAsset(a)
                  /\ fed \subseteq LiabilitySubtotals <=> IsLiability(a)
                  /\ a.type \in {"vehicle", "other_asset"} => fed = {"other_assets"}
                  /\ a.type = "loan" => fed = {"loans"}
                  /\ a.type = "credit" => fed = {"credit"}
                  /\ a.type = "other_liability" => fed = {"other_liabilities"}
        /\ frame'.total_assets = SumBalances(frame.accounts, AssetTypes)
        /\ frame'.total_liabilities = SumBalances(frame.accounts, LiabilityTypes)
        /\ frame'.total_assets = SumSubtotals(frame', AssetSubtotals)
        /\ frame'.total_liabilities = SumSubtotals(frame', LiabilitySubtotals)
        /\ DAdd(frame'.total_assets, frame'.total_liabilities) =
               SumBalances(frame.accounts, AccountType)]_vars

\* the totals of a vehicle (or other asset) of 3 and a loan of 3: the first is
\* in other_assets and in total_assets, the loan in loans and in
\* total_liabilities
C18_Witness ==
    /\ pc = "snapshot_transactions"
    /\ frame.other_assets = Dec(3)
    /\ frame.loans = Dec(3)
    /\ frame.total_assets = Dec(3)
    /\ frame.total_liabilities = Dec(3)
    /\ frame.net_worth = Zero

----------------------------------------------------------------------------
(* The insufficient-payment sentinel                                        *)

\* a month of the amortization of a loan with balance > 0 and annual_rate >= 0
\* is about to be simulated
SimulatingMonth ==
    /\ pc = "loan_loop"
    /\ LoanLoopGuard
    /\ DGt(args.balance, Zero)
    /\ DGe(args.annual_rate, Zero)

SentinelReturned(r) ==
    /\ r.kind = "return"
    /\ r.value.months_to_payoff = -1
    /\ r.value.total_interest = Dec(-1)

\* C19: in calculate_loan_payoff with balance > 0 and annual_rate >= 0, the
\* remaining balance strictly decreases in every simulated month that does
\* not return the sentinel, so the monthly interest is non-increasing and the
\* insufficient-payment sentinel (-1, -1) can only be returned in the first
\* simulated month: if the payment exceeds the first month's interest, the
\* result is never the sentinel.
C19_SentinelOnlyInFirstMonth ==
    [][SimulatingMonth =>
        /\ SentinelReturned(result') =>
              /\ frame.months = 0
              /\ DLe(frame.total_payment, Interest(args.balance, frame.monthly_rate))
        /\ ~SentinelReturned(result') =>
              /\ pc' = "loan_loop"
              /\ DLt(frame'.remaining, frame.remaining)
              /\ DLe(Interest(frame'.remaining, frame'.monthly_rate),
                     Interest(frame.remaining, frame.monthly_rate))
              /\ DGt(frame.total_payment, Interest(args.balance, frame.monthly_rate))]_vars

\* a loan of 16 at the annual rate 0.75 repaid with 8 a month: the payment
\* exceeds the first interest of 1, and the first month has left a balance
\* of 9 without returning the sentinel
C19_Witness ==
    /\ pc = "loan_loop"
    /\ args.balance = Dec(16)
    /\ args.annual_rate = Frac(3, 4)
    /\ frame.total_payment = Dec(8)
    /\ frame.months = 1
    /\ frame.remaining = Dec(9)
    /\ result = NoResult

\* with a negative rate the sentinel is returned in the second month: a loan
\* of 16 at the annual rate -12 and a payment of -5
C19_NegativeRateWitness ==
    /\ pc = "done"
    /\ args.fn = "calculate_loan_payoff"
    /\ args.balance = Dec(16)
    /\ args.annual_rate = Dec(-12)
    /\ iters = 2
    /\ SentinelReturned(result)

----------------------------------------------------------------------------
(* The range of fire_progress                                               *)

\* calculate_fire has returned from a call with current_investments >= 0 and
\* annual_expenses >= 0
NonNegativeFireCall ==
    /\ pc = "done"
    /\ args.fn = "calculate_fire"
    /\ DGe(args.current_investments, Zero)
    /\ DGe(args.annual_expenses, Zero)

\* half the distance between 1.0 and the float below it
HalfStepBelowOne == Frac(1, 2 * MantissaLimit)

\* C20 as stated: for every call of calculate_fire with current_investments
\* >= 0 and annual_expenses >= 0, the returned fire_progress lies in [0, 1] in
\* all three return paths, and the not-achievable path never reports a
\* progress of 1.0 or more.
C20_NotAchievableBelowOne ==
    NonNegativeFireCall =>
        /\ result.kind = "return"
        /\ DGe(result.value.fire_progress, Zero)
        /\ DLe(result.value.fire_progress, One)
        /\ result.value.years_to_fire = -1 => DLt(result.value.fire_progress, One)

\* C20, amended: for every call of calculate_fire with current_investments
\* >= 0 and annual_expenses >= 0, the returned fire_progress lies in [0, 1] in
\* all three return paths.  The not-achievable path is only reached with
\* current_investments < fire_number and never reports more than 1.0; it
\* reports exactly 1.0 when the quotient current_investments / fire_number is
\* so close to 1 that its conversion to a float rounds up to 1.0, and less
\* than 1.0 otherwise.
C20_ProgressInUnitInterval ==
    NonNegativeFireCall =>
        /\ result.kind = "return"
        /\ DGe(result.value.fire_progress, Zero)
        /\ DLe(result.value.fire_progress, One)
        /\ result.value.years_to_fire = -1 =>
              /\ DLt(args.current_investments, result.value.fire_number)
              /\ DLt(DDiv(args.current_investments, result.value.fire_number), One)
              /\ result.value.fire_progress = One <=>
                     DGe(DDiv(args.current_investments, result.value.fire_number),
                         DSub(One, HalfStepBelowOne))

\* investments of 1023 against a FIRE number of 1024 that is never reached:
\* the quotient 1023/1024 is below 1 and its float is 1.0
C20_Witness ==
    /\ NonNegativeFireCall
    /\ result.kind = "return"
    /\ args.current_investments = Dec(1023)
    /\ result.value.fire_number = Dec(1024)
    /\ result.value.years_to_fire = -1
    /\ result.value.fire_progress = One

----------------------------------------------------------------------------
(* Monotonicity in the extra payment                                        *)

\* calculate_loan_payoff has returned twice for the same loan with balance > 0
\* and annual_rate >= 0, the second time with an extra payment not smaller
ComparedPayoffs ==
    /\ pc = "done"
    /\ earlier # NoEarlier
    /\ args.fn = "calculate_loan_payoff"
    /\ DGt(args.balance, Zero)
    /\ DGe(args.annual_rate, Zero)

\* C21: calculate_loan_payoff is monotone in the extra payment: for the same
\* balance > 0, annual_rate >= 0 and monthly_payment, if extra_payment e1 <= e2
\* and neither call returns the -1 sentinel, then months_to_payoff(e2) <=
\* months_to_payoff(e1) and total_interest(e2) <= total_interest(e1); and if
\* the call with e1 is not the sentinel, the call with e2 is not the sentinel
\* either.
C21_MonotoneInExtraPayment ==
    ComparedPayoffs =>
        /\ result.kind = "return"
        /\ earlier.result.kind = "return"
        /\ DLe(earlier.args.extra_payment, args.extra_payment)
        /\ earlier.args = [args EXCEPT !.extra_payment = earlier.args.extra_payment]
        /\ ~SentinelReturned(earlier.result) => ~SentinelReturned(result)
        /\ (~SentinelReturned(earlier.result) /\ ~SentinelReturned(result)) =>
              /\ result.value.months_to_payoff <= earlier.result.value.months_to_payoff
              /\ DLe(result.value.total_interest, earlier.result.value.total_interest)

\* a loan of 16 at the annual rate 0.75 and 8 a month: paid off in 3 months
\* without an extra payment, in 2 months and with less interest with 4 extra
C21_Witness ==
    /\ ComparedPayoffs
    /\ args.balance = Dec(16)
    /\ args.annual_rate = Frac(3, 4)
    /\ args.monthly_payment = Dec(8)
    /\ earlier.args.extra_payment = Zero
    /\ args.extra_payment = Dec(4)
    /\ earlier.result.value.months_to_payoff = 3
    /\ result.value.months_to_payoff = 2
    /\ DLt(result.value.total_interest, earlier.result.value.total_interest)

\* the sentinel without an extra payment and a payoff with it: a loan of 16
\* at the annual rate 6 pays 8 of interest in the first month
C21_SentinelLiftedWitness ==
    /\ ComparedPayoffs
    /\ args.balance = Dec(16)
    /\ args.annual_rate = Dec(6)
    /\ args.monthly_payment = Dec(8)
    /\ SentinelReturned(earlier.result)
    /\ ~SentinelReturned(result)

====
